---- MODULE Spec2Model ----
(***************************************************************************)
(* A model of kofifus/New: the `New` factory that the library installs on *)
(* Function.prototype.  The repository holds seven revisions of the       *)
(* factory (src/new.js, src/unnamed/part_000..part_003 and the two        *)
(* boilerplates printed in the READMEs); exactly one of them is installed *)
(* in a running program (`if (typeof Function.prototype.New ===           *)
(* 'undefined')`), so the installed revision is chosen in Init and never  *)
(* changes.                                                               *)
(*                                                                         *)
(* JavaScript values are records tagged by `t`.  Objects carry an         *)
(* identity `id`, the function whose .prototype is their [[Prototype]]    *)
(* (`proto`) and their own properties in insertion order (`props`).       *)
(* Closure-private variables live in `heap`, indexed by the closure id    *)
(* that every function value created by a blueprint invocation carries.   *)
(***************************************************************************)
EXTENDS Integers, Sequences, FiniteSets, TLC

VARIABLES impl, statics, heap, last, created, coloredCalls, staticCreations, held, reply

vars == <<impl, statics, heap, last, created, coloredCalls, staticCreations, held, reply>>

(***************************************************************************)
(* Bounds of the exploration.                                              *)
(***************************************************************************)
MaxArgs == 2
MaxColoredCalls == 3
MaxAdvances == 2

(***************************************************************************)
(* JavaScript values.                                                      *)
(***************************************************************************)
Undef == [t |-> "undefined"]
Null == [t |-> "null"]
Bool(b) == [t |-> "boolean", b |-> b]
Num(n) == [t |-> "number", n |-> n]
Str(s) == [t |-> "string", s |-> s]
Arr(elems) == [t |-> "array", elems |-> elems]
DateV == [t |-> "date"]
Fn(name, clo) == [t |-> "function", name |-> name, clo |-> clo]
Obj(id, proto, props) == [t |-> "object", id |-> id, proto |-> proto, props |-> props]
Prop(k, v) == [k |-> k, v |-> v]
TypeError == [t |-> "error", name |-> "TypeError"]

\* a function that no blueprint closure owns
RawFn == Fn("anonymous", 0)
\* a DOM element: any object with a tagName
Elem == Obj(0, "HTMLElement", <<Prop("tagName", Str("DIV"))>>)

InvalidInterface == Str("New - invalid interface")
InvalidCtor == Str("New - invalid ctor")
MissingCtor == Str("New - missing ctor")
InvalidComposition == Str("New - invalid composition")

\* ToBoolean
Truthy(v) ==
  CASE v.t = "undefined" -> FALSE
    [] v.t = "null" -> FALSE
    [] v.t = "boolean" -> v.b
    [] v.t = "number" -> v.n # 0
    [] v.t = "string" -> Len(v.s) > 0
    [] OTHER -> TRUE

\* the typeof operator
TypeOf(v) ==
  CASE v.t \in {"undefined", "boolean", "number", "string", "function"} -> v.t
    [] OTHER -> "object"

IsArray(v) == v.t = "array"

\* the name of an array index or string index
IndexKey(i) == ToString(i)

IndexKeys(n) == [i \in 1..n |-> IndexKey(i - 1)]

\* Object.getOwnPropertyNames(v), for v neither null nor undefined
OwnPropertyNames(v) ==
  CASE v.t = "object" -> [i \in 1..Len(v.props) |-> v.props[i].k]
    [] v.t = "array" -> IndexKeys(Len(v.elems)) \o <<"length">>
    [] v.t = "string" -> IndexKeys(Len(v.s)) \o <<"length">>
    [] v.t = "function" -> <<"length", "name", "prototype">>
    [] OTHER -> <<>>

\* Object.keys(v): the enumerable own properties, for v neither null nor undefined
ObjectKeys(v) ==
  CASE v.t = "object" -> [i \in 1..Len(v.props) |-> v.props[i].k]
    [] v.t = "array" -> IndexKeys(Len(v.elems))
    [] v.t = "string" -> IndexKeys(Len(v.s))
    [] OTHER -> <<>>

SeqToSet(s) == {s[i] : i \in 1..Len(s)}

\* the set of v's own property names
Names(v) == SeqToSet(OwnPropertyNames(v))

\* o.hasOwnProperty(key)
HasOwnProperty(v, key) == key \in SeqToSet(OwnPropertyNames(v))

\* the value part of Object.getOwnPropertyDescriptor(v, key), for an own key
OwnValue(v, key) ==
  CASE v.t = "object" ->
         LET i == CHOOSE j \in 1..Len(v.props) : v.props[j].k = key IN v.props[i].v
    [] v.t = "array" ->
         IF key = "length" THEN Num(Len(v.elems))
         ELSE LET i == CHOOSE j \in 1..Len(v.elems) : IndexKey(j - 1) = key IN v.elems[i]
    [] v.t = "string" ->
         IF key = "length" THEN Num(Len(v.s)) ELSE Str("c")
    [] v.t = "function" ->
         IF key = "length" THEN Num(0)
         ELSE IF key = "name" THEN Str(v.name) ELSE Obj(0, "Object", <<>>)
    [] OTHER -> Undef

\* o.key: the own property, else undefined (no prototype of the model defines
\* `ctor` or `composed`)
Get(v, key) == IF v.t \in {"undefined", "null"} THEN Undef
               ELSE IF HasOwnProperty(v, key) THEN OwnValue(v, key) ELSE Undef

\* Object.defineProperty(o, key, descriptor) for a key o does not own
DefineProperty(o, key, val) == [o EXCEPT !.props = Append(@, Prop(key, val))]

\* delete o.key
Delete(o, key) ==
  LET keep == {i \in 1..Len(o.props) : o.props[i].k # key}
      F[i \in 0..Len(o.props)] ==
        IF i = 0 THEN <<>>
        ELSE IF i \in keep THEN Append(F[i - 1], o.props[i]) ELSE F[i - 1]
  IN [o EXCEPT !.props = F[Len(o.props)]]

\* o.key = val: an own property keeps its place, a new one goes last
Overwrite(o, key, val) ==
  IF HasOwnProperty(o, key)
  THEN [o EXCEPT !.props = [i \in 1..Len(o.props) |->
                              IF o.props[i].k = key THEN Prop(key, val) ELSE o.props[i]]]
  ELSE DefineProperty(o, key, val)

\* New without `Object.setPrototypeOf(header, this.prototype)`
SetPrototypeOf_left(o, f) == o

\* Object.setPrototypeOf(o, f.prototype)
SetPrototypeOf(o, f) == [o EXCEPT !.proto = f]

\* v.constructor, as the name of the constructor function
ConstructorOf(v) ==
  CASE v.t = "object" -> v.proto
    [] v.t = "array" -> "Array"
    [] v.t = "date" -> "Date"
    [] v.t = "function" -> "Function"
    [] v.t = "number" -> "Number"
    [] v.t = "string" -> "String"
    [] v.t = "boolean" -> "Boolean"
    [] OTHER -> "none"

\* i instanceof C: C.prototype is on i's prototype chain.  The prototype of a
\* blueprint is a plain object, so the chain of an object is its proto, then Object.
InstanceOf(v, C) == v.t = "object" /\ (v.proto = C \/ C = "Object")

(***************************************************************************)
(* Blueprints.  A blueprint is the 'class' function; the model describes  *)
(* one by what its body does (`body`), the public methods its descriptor  *)
(* lists (`keys`), what it puts under the reserved keys `ctor` and        *)
(* `composed`, and, for a body that returns something else than a         *)
(* dictionary of methods, the value it returns (`raw`).                   *)
(* A composition is none, one bare target or an array of targets; a       *)
(* target is the result of a nested New or any other value.               *)
(***************************************************************************)
NoComp == [kind |-> "none", targets |-> <<>>]
OneComp(t) == [kind |-> "one", targets |-> <<t>>]
ManyComp(ts) == [kind |-> "many", targets |-> ts]
NewT(bp, args) == [kind |-> "new", bp |-> bp, args |-> args]
\* the target `D.New(v+d)`, v the blueprint's private variable
NewV(bp, d) == [kind |-> "newv", bp |-> bp, d |-> d]
RawT(v) == [kind |-> "raw", val |-> v]

NoCtor == [kind |-> "absent", val |-> Undef, ret |-> NoComp]
ValCtor(v) == [kind |-> "value", val |-> v, ret |-> NoComp]
FnCtor(ret) == [kind |-> "fn", val |-> Undef, ret |-> ret]

Blueprint(name, body, raw, keys, ctor, composed) ==
  [name |-> name, body |-> body, raw |-> raw, keys |-> keys, ctor |-> ctor,
   composed |-> composed]

\* README: function Counter() { let count=0; ... return { advance, reset, value } }
Counter ==
  Blueprint("Counter", "Counter", Undef, <<"advance", "reset", "value">>, NoCtor, NoComp)

\* README: function ColoredDiv() { ... return { ctor, red, blue, get state, set state } }
ColoredDiv ==
  Blueprint("ColoredDiv", "ColoredDiv", Undef, <<"red", "blue", "state">>,
            FnCtor(NoComp), NoComp)

\* a class that keeps the static instance counter as ColoredDiv does and, like
\* C4, does not list a ctor in its descriptor
Tallied ==
  Blueprint("Tallied", "Tallied", Undef, <<"red", "blue", "state">>, NoCtor, NoComp)

(***************************************************************************)
(* Execution.  A context threads the installed revision, the heap of      *)
(* closure variables, the blueprint-level statics, the next free identity *)
(* and the trace of the call in progress through the evaluation.  Every   *)
(* evaluation step yields a completion: "ok" with a value, or "throw"     *)
(* with the thrown value.                                                  *)
(***************************************************************************)
Ok(ctx, v) == [ctx |-> ctx, kind |-> "ok", val |-> v]
Throw(ctx, e) == [ctx |-> ctx, kind |-> "throw", val |-> e]

Ev(ev, clo, thisv, args, val) ==
  [ev |-> ev, clo |-> clo, this |-> thisv, args |-> args, val |-> val]

Log(ctx, e) == [ctx EXCEPT !.log = Append(@, e)]

\* the closure variables a blueprint body declares
InitVars(bp) ==
  CASE bp.body = "Counter" -> [count |-> 0]
    [] bp.body = "ColoredDiv" -> [elem |-> Undef, state |-> Undef]
    [] bp.body = "C1" -> [v |-> Num(1)]
    [] bp.body = "Cv" -> [v |-> Undef]
    [] OTHER -> [none |-> 0]

\* advance on a `count` declared outside the blueprint: one variable for all
\* the Counters
advance_shared(clo, ctx) ==
  Ok([ctx EXCEPT !.heap = [c \in DOMAIN ctx.heap |->
                             IF ctx.heap[c].bp.body = "Counter"
                             THEN [ctx.heap[c] EXCEPT !.vars.count = @ + 1]
                             ELSE ctx.heap[c]]],
     Num(ctx.heap[clo].vars.count + 1))

\* advance written with the postfix operator: `return count++;`
advance_postfix(clo, ctx) ==
  Ok([ctx EXCEPT !.heap[clo].vars.count = @ + 1], Num(ctx.heap[clo].vars.count))

\* Counter: function advance() { return ++count; }
advance(clo, ctx) ==
  LET n == ctx.heap[clo].vars.count + 1
  IN Ok([ctx EXCEPT !.heap[clo].vars.count = n], Num(n))

\* Counter: function reset(newCount) { count=(newCount || 0); }
reset(clo, args, ctx) ==
  Ok([ctx EXCEPT !.heap[clo].vars.count =
        IF Truthy(IF 1 <= Len(args) THEN args[1] ELSE Undef) THEN args[1].n ELSE 0],
     Undef)

\* Counter: function value() { return count; }
value(clo, ctx) == Ok(ctx, Num(ctx.heap[clo].vars.count))

\* C1..C4: function getV() { return v; }, and getC1V .. getC4V alike
getV(clo, ctx) == Ok(ctx, ctx.heap[clo].vars.v)

\* calling a method of an instance: the function runs on its own closure
CallMethod(f, args, ctx) ==
  CASE f.name = "advance" -> advance(f.clo, ctx)
    [] f.name = "reset" -> reset(f.clo, args, ctx)
    [] f.name = "value" -> value(f.clo, ctx)
    [] OTHER -> getV(f.clo, ctx)

\* ColoredDiv.NumInstances = function() { return ColoredDiv.staticCounter.value(); }
NumInstances(st, hp) == value(Get(st.staticCounter, "value").clo, [heap |-> hp]).val.n

\* args[i], undefined beyond the arguments passed
Arg(args, i) == IF i <= Len(args) THEN args[i] ELSE Undef

\* sequencing: a thrown value ends the evaluation, a value goes on to K
Bind(r, K(_)) == IF r.kind = "throw" THEN r ELSE K(r)

RECURSIVE New(_, _, _)

\* a composition target as the blueprint's author writes it: `D.New(..)` or a value
EvalTarget(t, ctx) == IF t.kind = "raw" THEN Ok(ctx, t.val) ELSE New(t.bp, t.args, ctx)

RECURSIVE EvalTargets(_, _, _, _)
\* an array literal of targets, `[C1.New(), C3.New(v-1)]`, evaluated left to right
EvalTargets(ts, i, acc, ctx) ==
  IF i > Len(ts) THEN Ok(ctx, Arr(acc))
  ELSE Bind(EvalTarget(ts[i], ctx),
            LAMBDA r : EvalTargets(ts, i + 1, Append(acc, r.val), r.ctx))

\* the composition expression of a blueprint: nothing, one target, an array
EvalComp(spec, ctx) ==
  CASE spec.kind = "none" -> Ok(ctx, Undef)
    [] spec.kind = "one" -> EvalTarget(spec.targets[1], ctx)
    [] spec.kind = "many" -> EvalTargets(spec.targets, 1, <<>>, ctx)

\* the static counter assigned without the `if (!ColoredDiv.staticCounter)`
\* guard: every invocation of the body replaces it
ColoredDivStatics_unguarded(ctx) ==
  Bind(EvalTarget(NewT(Counter, <<>>), ctx),
       LAMBDA n : Ok([n.ctx EXCEPT !.statics.staticCounter = n.val,
                                   !.statics.NumInstances = TRUE,
                                   !.creations = @ + 1], Undef))

\* ColoredDiv: if (!ColoredDiv.staticCounter) ColoredDiv.staticCounter=Counter.New();
\*             ColoredDiv.NumInstances = function() {...}
ColoredDivStatics(ctx) ==
  Bind(IF ~Truthy(ctx.statics.staticCounter)
       THEN Bind(EvalTarget(NewT(Counter, <<>>), ctx),
                 LAMBDA n : Ok([n.ctx EXCEPT !.statics.staticCounter = n.val,
                                             !.creations = @ + 1], Undef))
       ELSE Ok(ctx, Undef),
       LAMBDA r : Ok([r.ctx EXCEPT !.statics.NumInstances = TRUE], Undef))

\* ColoredDiv's ctor with `ColoredDiv.staticCounter.advance()` moved above the
\* abort check
ColoredDivCtor_countsFirst(clo, args, ctx) ==
  Bind(advance(Get(ctx.statics.staticCounter, "advance").clo, ctx),
       LAMBDA r :
         IF ~Truthy(Arg(args, 1)) \/ ~Truthy(Get(Arg(args, 1), "tagName"))
         THEN Ok(r.ctx, Bool(FALSE))
         ELSE Ok([r.ctx EXCEPT !.heap[clo].vars =
                    [elem |-> Arg(args, 1),
                     state |-> IF Arg(args, 2) = Undef THEN Bool(TRUE) ELSE Arg(args, 2)]],
                 Undef))

\* ColoredDiv: function ctor(elem_, state_=true) {...}; the writes to the DOM
\* element (onclick, style.color) are outside the model
ColoredDivCtor(clo, args, ctx) ==
  LET elem_ == Arg(args, 1)
      state_ == IF Arg(args, 2) = Undef THEN Bool(TRUE) ELSE Arg(args, 2)
  IN IF ~Truthy(elem_) \/ ~Truthy(Get(elem_, "tagName")) THEN Ok(ctx, Bool(FALSE))
     ELSE Bind(advance(Get(ctx.statics.staticCounter, "advance").clo,
                       [ctx EXCEPT !.heap[clo].vars = [elem |-> elem_, state |-> state_]]),
               LAMBDA r : Ok(r.ctx, Undef))

\* the ctor called as `ctor()`: the arguments of New are not passed on
CallCtor_noArgs(f, thisv, args, ctx) ==
  Bind(IF ctx.heap[f.clo].bp.body = "ColoredDiv"
       THEN ColoredDivCtor(f.clo, <<>>, Log(ctx, Ev("ctor", f.clo, thisv, <<>>, Undef)))
       ELSE EvalComp(ctx.heap[f.clo].bp.ctor.ret,
                     Log(ctx, Ev("ctor", f.clo, thisv, <<>>, Undef))),
       LAMBDA r : Ok(Log(r.ctx, Ev("ctorret", f.clo, thisv, <<>>, r.val)), r.val))

\* calling the function a descriptor holds under `ctor`, with receiver and arguments
CallCtor(f, thisv, args, ctx) ==
  Bind(IF ctx.heap[f.clo].bp.body = "ColoredDiv"
       THEN ColoredDivCtor(f.clo, args, Log(ctx, Ev("ctor", f.clo, thisv, args, Undef)))
       ELSE EvalComp(ctx.heap[f.clo].bp.ctor.ret,
                     Log(ctx, Ev("ctor", f.clo, thisv, args, Undef))),
       LAMBDA r : Ok(Log(r.ctx, Ev("ctorret", f.clo, thisv, args, r.val)), r.val))

\* the object literal a blueprint returns: { ctor, composed: ..., methods }
Descriptor(bp, c, id, composed) ==
  Obj(id, "Object",
      (CASE bp.ctor.kind = "absent" -> <<>>
         [] bp.ctor.kind = "value" -> <<Prop("ctor", bp.ctor.val)>>
         [] bp.ctor.kind = "fn" -> <<Prop("ctor", Fn("ctor", c))>>)
      \o (IF bp.composed.kind = "none" THEN <<>> ELSE <<Prop("composed", composed)>>)
      \o [i \in 1..Len(bp.keys) |-> Prop(bp.keys[i], Fn(bp.keys[i], c))])

\* the closure of a blueprint invocation: its private variables
Enter(bp, thisv, args, ctx) ==
  Log([ctx EXCEPT !.next = @ + 1,
                  !.heap = (ctx.next :> [bp |-> bp, vars |-> InitVars(bp)]) @@ @],
      Ev("bp", ctx.next, thisv, args, Undef))

\* C3: `C2.New(v-1)` with the value v has when the descriptor is built
Resolve(spec, c, ctx) ==
  [spec EXCEPT !.targets =
     [i \in 1..Len(spec.targets) |->
        IF spec.targets[i].kind = "newv"
        THEN NewT(spec.targets[i].bp, <<Num(ctx.heap[c].vars.v.n + spec.targets[i].d)>>)
        ELSE spec.targets[i]]]

\* C2..C4: function C2(v) {...; if (typeof v === 'undefined') v=-1; ...}
BindV(c, args, ctx) ==
  [ctx EXCEPT !.heap[c].vars.v = IF Arg(args, 1) = Undef THEN Num(-1) ELSE Arg(args, 1)]

\* the return statement of a blueprint
Return(bp, c, thisv, args, ctx) ==
  IF bp.body = "raw" THEN Ok(Log(ctx, Ev("desc", c, thisv, args, bp.raw)), bp.raw)
  ELSE Bind(EvalComp(Resolve(bp.composed, c, ctx), ctx),
            LAMBDA r : Ok(Log([r.ctx EXCEPT !.next = @ + 1],
                              Ev("desc", c, thisv, args,
                                 Descriptor(bp, c, r.ctx.next, r.val))),
                          Descriptor(bp, c, r.ctx.next, r.val)))

\* invoking the blueprint: a fresh closure, the body's statements, the descriptor
CallBlueprint(bp, thisv, args, ctx) ==
  Bind(IF bp.body \in {"ColoredDiv", "Tallied"}
       THEN ColoredDivStatics(Enter(bp, thisv, args, ctx))
       ELSE IF bp.body = "Cv" THEN Ok(BindV(ctx.next, args, Enter(bp, thisv, args, ctx)), Undef)
       ELSE Ok(Enter(bp, thisv, args, ctx), Undef),
       LAMBDA r : Return(bp, ctx.next, thisv, args, r.ctx))

(***************************************************************************)
(* The pieces the revisions of New share.                                  *)
(***************************************************************************)
RECURSIVE CopyEach(_, _, _, _)
\* names.forEach(key => { if (!to.hasOwnProperty(key))
\*     Object.defineProperty(to, key, Object.getOwnPropertyDescriptor(from, key)); })
CopyEach(to, from, names, i) ==
  IF i > Len(names) THEN to
  ELSE CopyEach(IF ~HasOwnProperty(to, names[i])
                THEN DefineProperty(to, names[i], OwnValue(from, names[i]))
                ELSE to,
                from, names, i + 1)

RECURSIVE AssignEach(_, _, _, _)
\* names.forEach(key => { to[key] = from[key]; }): the copy without its guard
AssignEach(to, from, names, i) ==
  IF i > Len(names) THEN to
  ELSE AssignEach(Overwrite(to, names[i], OwnValue(from, names[i])), from, names, i + 1)

RECURSIVE AssignOwned(_, _, _, _)
\* the copy with its guard negated: `if (to.hasOwnProperty(key))`
AssignOwned(to, from, names, i) ==
  IF i > Len(names) THEN to
  ELSE AssignOwned(IF HasOwnProperty(to, names[i])
                   THEN Overwrite(to, names[i], OwnValue(from, names[i]))
                   ELSE to,
                   from, names, i + 1)

\* copyProps with the guard negated
copyProps_negated(to, from) ==
  IF from.t \in {"undefined", "null"} THEN [kind |-> "throw", val |-> TypeError]
  ELSE [kind |-> "ok", val |-> AssignOwned(to, from, OwnPropertyNames(from), 1)]

\* copyProps without the guard
copyProps_unguarded(to, from) ==
  IF from.t \in {"undefined", "null"} THEN [kind |-> "throw", val |-> TypeError]
  ELSE [kind |-> "ok", val |-> AssignEach(to, from, OwnPropertyNames(from), 1)]

\* part_002's copy of a target's properties without the guard
mergeProps_unguarded(header, a) == AssignEach(header, a, OwnPropertyNames(a), 1)

\* new.js: function copyProps(to, from); Object.getOwnPropertyNames throws a
\* TypeError for null and undefined
copyProps(to, from) ==
  IF from.t \in {"undefined", "null"} THEN [kind |-> "throw", val |-> TypeError]
  ELSE [kind |-> "ok", val |-> CopyEach(to, from, OwnPropertyNames(from), 1)]

\* part_002: let props = Object.getOwnPropertyNames(a); props.forEach(key => {...})
mergeProps(header, a) == CopyEach(header, a, OwnPropertyNames(a), 1)

\* the interface check without `Object.keys(header).length===0`
invalidInterface_emptyAllowed(header) ==
  \/ ~Truthy(header)
  \/ TypeOf(header) # "object"
  \/ IsArray(header)
  \/ TypeOf(header) = "function"

\* part_002: the condition of `throw 'New - invalid interface'`
invalidInterface(header) ==
  \/ ~Truthy(header)
  \/ TypeOf(header) # "object"
  \/ IsArray(header)
  \/ TypeOf(header) = "function"
  \/ Len(ObjectKeys(header)) = 0

\* part_002: the condition of `throw 'New - invalid composition'`
invalidTarget(a) ==
  \/ ~Truthy(a)
  \/ IsArray(a)
  \/ TypeOf(a) = "function"
  \/ Len(ObjectKeys(a)) = 0

\* part_001: let isDict = d => (...)
isDict(d) ==
  /\ d.t # "undefined"
  /\ d.t # "null"
  /\ TypeOf(d) = "object"
  /\ ConstructorOf(d) # "Array"
  /\ ConstructorOf(d) # "Date"

RECURSIVE forEachTarget(_, _, _, _)
\* part_002: composed.forEach(a => { if (...) throw ...; ...copy the properties... })
forEachTarget(header, elems, i, ctx) ==
  IF i > Len(elems) THEN Ok(ctx, header)
  ELSE IF invalidTarget(elems[i]) THEN Throw(ctx, InvalidComposition)
  ELSE forEachTarget(mergeProps(header, elems[i]), elems, i + 1, ctx)

\* part_002: // compose
compose(header, composed, ctx) ==
  IF ~Truthy(composed) THEN Ok(ctx, header)
  ELSE LET list == IF ~IsArray(composed) /\ TypeOf(composed) # "function"
                   THEN Arr(<<composed>>) ELSE composed
       IN IF ~IsArray(list) THEN Throw(ctx, TypeError) \* a function has no forEach
          ELSE forEachTarget(header, list.elems, 1, ctx)

RECURSIVE forEachDict(_, _, _, _)
\* part_001: composed.forEach(a => { if (!isDict(a)) throw ...; ... })
forEachDict(header, elems, i, ctx) ==
  IF i > Len(elems) THEN Ok(ctx, header)
  ELSE IF ~isDict(elems[i]) THEN Throw(ctx, InvalidComposition)
  ELSE forEachDict(mergeProps(header, elems[i]), elems, i + 1, ctx)

\* part_001: // compose
composeDicts(header, composed, ctx) ==
  IF ~Truthy(composed) THEN Ok(ctx, header)
  ELSE LET list == IF isDict(composed) THEN Arr(<<composed>>) ELSE composed
       IN IF ConstructorOf(list) # "Array" THEN Throw(ctx, InvalidComposition)
          ELSE forEachDict(header, list.elems, 1, ctx)

\* the completion of copyProps within the call in progress
Copied(r, ctx) == IF r.kind = "throw" THEN Throw(ctx, r.val) ELSE Ok(ctx, r.val)

RECURSIVE forEachComposed(_, _, _, _)
\* new.js: header.composed.forEach(props => copyProps(header, props));
forEachComposed(header, elems, i, ctx) ==
  IF i > Len(elems) THEN Ok(ctx, header)
  ELSE Bind(Copied(copyProps(header, elems[i]), ctx),
            LAMBDA r : forEachComposed(r.val, elems, i + 1, ctx))

\* the fill that forgets the rest of an array: only the first target is copied
fillComposed_firstOnly(header, ctx) ==
  IF ~Truthy(Get(header, "composed")) THEN Ok(ctx, header)
  ELSE Bind(forEachComposed(header,
                            IF ~IsArray(Get(header, "composed"))
                            THEN <<Get(header, "composed")>>
                            ELSE SubSeq(Get(header, "composed").elems, 1, 1),
                            1, ctx),
            LAMBDA r : Ok(r.ctx, Delete(r.val, "composed")))

\* new.js: // fill instance with composed properties
fillComposed(header, ctx) ==
  IF ~Truthy(Get(header, "composed")) THEN Ok(ctx, header)
  ELSE Bind(forEachComposed(header,
                            IF ~IsArray(Get(header, "composed"))
                            THEN <<Get(header, "composed")>>
                            ELSE Get(header, "composed").elems,
                            1, ctx),
            LAMBDA r : Ok(r.ctx, Delete(r.val, "composed")))

\* Object.create(f.prototype): a fresh object of the next free identity
Create(f, ctx) == Obj(ctx.next, f, <<>>)

\* the context after an object was created
Created(ctx) == [ctx EXCEPT !.next = @ + 1]

\* the checks of the ctor without `if (args.length>0 && !ctor) throw ...`
resolveCtor_argsDropped(header, args, ctx) ==
  IF Truthy(Get(header, "ctor")) /\ TypeOf(Get(header, "ctor")) # "function"
  THEN Throw(ctx, InvalidCtor)
  ELSE Ok(ctx, Get(header, "ctor"))

\* let ctor=header.ctor; the two checks of it; the arguments reach a ctor
\* only: the value is "throw" with the error, or "ok" with the ctor
resolveCtor(header, args, ctx) ==
  IF Truthy(Get(header, "ctor")) /\ TypeOf(Get(header, "ctor")) # "function"
  THEN Throw(ctx, InvalidCtor)
  ELSE IF Len(args) > 0 /\ ~Truthy(Get(header, "ctor")) THEN Throw(ctx, MissingCtor)
  ELSE Ok(ctx, Get(header, "ctor"))

(***************************************************************************)
(* The revisions of Function.prototype.New.                                *)
(***************************************************************************)
\* new.js calling the blueprint as `this(...args)`: no receiver is passed
New_newjs_noReceiver(bp, args, ctx) ==
  Bind(CallBlueprint(bp, Undef, args, Created(ctx)),
       LAMBDA r :
         Bind(Copied(copyProps(SetPrototypeOf(Create("Object", ctx), bp.name), r.val),
                     r.ctx),
              LAMBDA c : fillComposed(c.val, c.ctx)))

\* src/new.js
New_newjs(bp, args, ctx) ==
  Bind(CallBlueprint(bp, SetPrototypeOf(Create("Object", ctx), bp.name), args,
                     Created(ctx)),
       LAMBDA r :
         Bind(Copied(copyProps(SetPrototypeOf(Create("Object", ctx), bp.name), r.val),
                     r.ctx),
              LAMBDA c : fillComposed(c.val, c.ctx)))

\* src/unnamed/part_003
New_part003(bp, args, ctx) ==
  Bind(CallBlueprint(bp, Create(bp.name, ctx), args, Created(ctx)),
       LAMBDA r :
         Bind(Copied(copyProps(Create(bp.name, ctx), r.val), r.ctx),
              LAMBDA c : fillComposed(c.val, c.ctx)))

\* src/unnamed/part_002
New_part002(bp, args, ctx) ==
  Bind(CallBlueprint(bp, Undef, <<>>, ctx),
       LAMBDA r :
         IF invalidInterface(r.val) THEN Throw(r.ctx, InvalidInterface)
         ELSE Bind(resolveCtor(SetPrototypeOf(r.val, bp.name), args, r.ctx),
                   LAMBDA k :
                     IF Truthy(k.val)
                     THEN Bind(CallCtor(k.val, Undef, args, k.ctx),
                               LAMBDA c :
                                 compose(Delete(SetPrototypeOf(r.val, bp.name), "ctor"),
                                         c.val, c.ctx))
                     ELSE compose(SetPrototypeOf(r.val, bp.name), Undef, k.ctx)))

\* src/unnamed/part_000; its compose block is the text of part_002's
New_part000(bp, args, ctx) ==
  Bind(CallBlueprint(bp, Create(bp.name, ctx), <<>>, Created(ctx)),
       LAMBDA r :
         IF invalidInterface(r.val) THEN Throw(r.ctx, InvalidInterface)
         ELSE Bind(resolveCtor(SetPrototypeOf(r.val, bp.name), args, r.ctx),
                   LAMBDA k :
                     IF Truthy(k.val)
                     THEN Bind(CallCtor(k.val, Create(bp.name, ctx), args, k.ctx),
                               LAMBDA c :
                                 compose(Delete(SetPrototypeOf(r.val, bp.name), "ctor"),
                                         c.val, c.ctx))
                     ELSE compose(SetPrototypeOf(r.val, bp.name), Undef, k.ctx)))

\* src/unnamed/part_001
New_part001(bp, args, ctx) ==
  Bind(CallBlueprint(bp, Undef, <<>>, ctx),
       LAMBDA r :
         IF ~isDict(r.val) THEN Throw(r.ctx, InvalidInterface)
         ELSE Bind(resolveCtor(SetPrototypeOf(r.val, bp.name), args, r.ctx),
                   LAMBDA k :
                     IF Truthy(k.val)
                     THEN Bind(CallCtor(k.val, SetPrototypeOf(r.val, bp.name), args,
                                        k.ctx),
                               LAMBDA c :
                                 composeDicts(Delete(SetPrototypeOf(r.val, bp.name),
                                                     "ctor"),
                                              c.val, c.ctx))
                     ELSE composeDicts(SetPrototypeOf(r.val, bp.name), Undef, k.ctx)))

\* the boilerplate without its `===false` test: what the ctor returns is
\* composition data, as in part_000
New_readme_composing(bp, args, ctx) == New_part000(bp, args, ctx)

\* src/new.js, the boilerplate its README prints: a ctor may abort with false
New_readme(bp, args, ctx) ==
  Bind(CallBlueprint(bp, Create(bp.name, ctx), <<>>, Created(ctx)),
       LAMBDA r :
         IF invalidInterface(r.val) THEN Throw(r.ctx, InvalidInterface)
         ELSE Bind(resolveCtor(SetPrototypeOf(r.val, bp.name), args, r.ctx),
                   LAMBDA k :
                     IF Truthy(k.val)
                     THEN Bind(CallCtor(k.val, Create(bp.name, ctx), args, k.ctx),
                               LAMBDA c :
                                 IF c.val = Bool(FALSE) THEN Ok(c.ctx, Undef)
                                 ELSE Ok(c.ctx,
                                         Delete(SetPrototypeOf(r.val, bp.name), "ctor")))
                     ELSE Ok(k.ctx, Delete(SetPrototypeOf(r.val, bp.name), "ctor"))))

\* Reflect.construct(f, []): what f returns if that is an object, else the new `this`
Constructed(thisv, ret) ==
  IF ret.t \in {"object", "array", "function", "date"} THEN ret ELSE thisv

\* src/README.md, the boilerplate it prints: Reflect.construct, ctor stripped first
New_readme0(bp, args, ctx) ==
  Bind(CallBlueprint(bp, Create(bp.name, ctx), <<>>, Created(ctx)),
       LAMBDA r :
         LET pubInterface == Constructed(Create(bp.name, ctx), r.val)
         IN IF invalidInterface(pubInterface) THEN Throw(r.ctx, InvalidInterface)
            ELSE Bind(resolveCtor(SetPrototypeOf(pubInterface, bp.name), args, r.ctx),
                      LAMBDA k :
                        IF Truthy(k.val)
                        THEN Bind(CallCtor(k.val, Undef, args, k.ctx),
                                  LAMBDA c :
                                    Ok(c.ctx, Delete(SetPrototypeOf(pubInterface, bp.name),
                                                     "ctor")))
                        ELSE Ok(k.ctx, Delete(SetPrototypeOf(pubInterface, bp.name),
                                              "ctor"))))

Revisions ==
  {"new.js", "part_000", "part_001", "part_002", "part_003", "readme", "readme0"}

\* f.New(...args) under the installed revision
New(bp, args, ctx) ==
  CASE ctx.impl = "new.js" -> New_newjs(bp, args, ctx)
    [] ctx.impl = "part_000" -> New_part000(bp, args, ctx)
    [] ctx.impl = "part_001" -> New_part001(bp, args, ctx)
    [] ctx.impl = "part_002" -> New_part002(bp, args, ctx)
    [] ctx.impl = "part_003" -> New_part003(bp, args, ctx)
    [] ctx.impl = "readme" -> New_readme(bp, args, ctx)
    [] ctx.impl = "readme0" -> New_readme0(bp, args, ctx)

(***************************************************************************)
(* The blueprints and arguments the exploration draws from.                *)
(***************************************************************************)
\* composable classes without composition of their own
D1 == Blueprint("D1", "plain", Undef, <<"foo", "bar">>, NoCtor, NoComp)
D2 == Blueprint("D2", "plain", Undef, <<"bar", "baz">>, NoCtor, NoComp)
\* a class whose descriptor holds a falsy value under `ctor`
DZ == Blueprint("DZ", "plain", Undef, <<"baz">>, ValCtor(Num(0)), NoComp)
\* a class composed with D1 both ways, as README's C4 is: by the ctor's return
\* value and by the `composed` key
D3 == Blueprint("D3", "plain", Undef, <<"qux", "bar">>,
                FnCtor(OneComp(NewT(D1, <<>>))), OneComp(NewT(D1, <<>>)))

\* README: function C1(), C2(v), C3(v) composed with C2(v-1), C4(v) composed with
\* C1 and C3(v-1); C4's descriptor does not list the ctor the function declares
C1 == Blueprint("C1", "C1", Undef, <<"getC1V", "getV">>, NoCtor, NoComp)
C2 == Blueprint("C2", "Cv", Undef, <<"getC2V", "getV">>, NoCtor, NoComp)
C3 == Blueprint("C3", "Cv", Undef, <<"getC3V", "getV">>, NoCtor, OneComp(NewV(C2, -1)))
C4 == Blueprint("C4", "Cv", Undef, <<"getC4V", "getV">>, NoCtor,
                ManyComp(<<NewT(C1, <<>>), NewV(C3, -1)>>))

NewTargets == {NewT(D1, <<>>), NewT(D2, <<>>), NewT(DZ, <<>>), NewT(D3, <<>>)}

RawValues ==
  {Undef, Null, Bool(FALSE), Bool(TRUE), Num(0), Num(5), Str(""), Str("ab"), RawFn,
   Arr(<<>>), Arr(<<Num(5)>>), DateV, Obj(0, "Object", <<>>),
   Obj(0, "Object", <<Prop("foo", Num(7)), Prop("ctor", Num(9))>>)}

\* arrays of two targets: a constructed instance first, then anything; or a
\* malformed first element
TargetPairs ==
  {<<t1, t2>> : t1 \in {NewT(D1, <<>>), NewT(D2, <<>>), NewT(D3, <<>>)},
                t2 \in {NewT(D1, <<>>), NewT(D2, <<>>), NewT(DZ, <<>>), RawT(Null),
                        RawT(Str("ab")), RawT(RawFn), RawT(Arr(<<>>))}}
  \cup {<<RawT(Null), NewT(D1, <<>>)>>, <<RawT(Str("ab")), NewT(D1, <<>>)>>}

CompSpecs ==
  {NoComp} \cup {OneComp(t) : t \in NewTargets \cup {RawT(v) : v \in RawValues}}
           \cup {ManyComp(ts) : ts \in TargetPairs}

\* what a descriptor may hold under `ctor` that is not callable
CtorValues ==
  {Undef, Null, Bool(FALSE), Num(0), Str(""), Num(5), Str("ab"), Obj(0, "Object", <<>>)}

\* classes composed by what their ctor returns, and classes composed by their
\* `composed` key
Hosts ==
  {Blueprint("A", "plain", Undef, ks, c, NoComp) :
     ks \in {<<"foo", "bar">>, <<"zap">>},
     c \in {NoCtor} \cup {ValCtor(v) : v \in CtorValues} \cup {FnCtor(s) : s \in CompSpecs}}
  \cup
  {Blueprint("A", "plain", Undef, ks, c, s) :
     ks \in {<<"foo">>}, c \in {NoCtor, FnCtor(NoComp)},
     s \in CompSpecs \ {NoComp}}

\* blueprints that do not return a dictionary of methods
RawBlueprints == {Blueprint("R", "raw", v, <<>>, NoCtor, NoComp) : v \in RawValues}

Blueprints == {Counter, ColoredDiv, Tallied, D1, D2, DZ, D3} \cup Hosts \cup RawBlueprints

BlueprintNames == {"Counter", "ColoredDiv", "Tallied", "D1", "D2", "DZ", "D3", "A", "R"}

\* the i-th argument of a call: a DOM element and a number in turn
ArgAt(i) == IF i % 2 = 1 THEN Elem ELSE Num(3)

\* the argument lists: the lists ArgAt(1), ..., ArgAt(n) for n up to MaxArgs
ArgLists == {[i \in 1..n |-> ArgAt(i)] : n \in 0..MaxArgs}

(***************************************************************************)
(* The state machine: a program with one revision of New installed calls  *)
(* New over and over.  `last` holds the outcome of the call whose result  *)
(* the caller still holds, with the trace of that call; Discard is the    *)
(* caller dropping it, after which the closures only it referred to are   *)
(* garbage and their identities free again.                                *)
(* `created`, `coloredCalls` and `staticCreations` are the observer's     *)
(* tallies: the New(ColoredDiv) calls that returned an instance, all      *)
(* New(ColoredDiv) calls, and the assignments to ColoredDiv.staticCounter. *)
(***************************************************************************)
\* no call has returned to the caller yet
NoReply == [op |-> "none", bp |-> Counter, args |-> <<>>, i |-> 0, val |-> Undef]

NoCall == [kind |-> "none", bp |-> Counter, args |-> <<>>, val |-> Undef, log |-> <<>>]

Max(S) == CHOOSE x \in S : \A y \in S : y <= x

\* the closures the blueprint-level statics reach
LiveClosures(st) ==
  IF st.staticCounter.t = "object"
  THEN {st.staticCounter.props[i].v.clo : i \in 1..Len(st.staticCounter.props)}
  ELSE {}

\* the first identity no live object or closure bears
NextFree(st) ==
  1 + Max({0} \cup LiveClosures(st)
              \cup (IF st.staticCounter.t = "object" THEN {st.staticCounter.id} ELSE {}))

Init ==
  /\ impl \in Revisions
  /\ statics = [staticCounter |-> Undef, NumInstances |-> FALSE]
  /\ heap = << >>
  /\ last = NoCall
  /\ created = 0
  /\ coloredCalls = 0
  /\ staticCreations = 0
  /\ held = << >>
  /\ reply = NoReply

\* the caller receives the completion r of New(bp, args)
Receive(bp, args, r) ==
  /\ last' = [kind |-> IF r.kind = "ok" THEN "return" ELSE "throw",
              bp |-> bp, args |-> args, val |-> r.val, log |-> r.ctx.log]
  /\ heap' = r.ctx.heap
  /\ statics' = r.ctx.statics
  /\ staticCreations' = r.ctx.creations
  /\ created' = IF bp.body = "ColoredDiv" /\ r.kind = "ok" /\ r.val.t = "object"
                THEN created + 1 ELSE created
  /\ coloredCalls' = IF bp.body = "ColoredDiv" THEN coloredCalls + 1 ELSE coloredCalls

Call(bp, args) ==
  /\ last.kind = "none"
  /\ bp.body = "ColoredDiv" => coloredCalls < MaxColoredCalls
  /\ Receive(bp, args,
             New(bp, args, [impl |-> impl, heap |-> heap, statics |-> statics,
                            next |-> NextFree(statics), log |-> << >>,
                            creations |-> staticCreations]))
  /\ UNCHANGED <<impl, held, reply>>

Discard ==
  /\ last.kind # "none"
  /\ last' = NoCall
  /\ heap' = [c \in LiveClosures(statics) |-> heap[c]]
  /\ UNCHANGED <<impl, statics, created, coloredCalls, staticCreations, held, reply>>

Next ==
  \/ \E bp \in Blueprints, args \in ArgLists : Call(bp, args)
  \/ Discard

Spec == Init /\ [][Next]_vars

(***************************************************************************)
(* A program that keeps the instances it makes and calls their methods.   *)
(* `held` lists the instances the caller holds, each with the observer's  *)
(* tallies for a Counter: the number last given to reset (`base`) and the *)
(* advance() calls since (`adv`).  `reply` is what the last call, of New  *)
(* or of a method, gave back.                                              *)
(***************************************************************************)
MaxHeld == 2

\* the classes the program instantiates itself; C1 and C2 are made by C3 and C4
UsageBlueprints == {Counter, C3, C4}

UsageArgs == {<< >>, <<Num(3)>>, <<Num(4)>>}

ResetArgs == {<< >>, <<Null>>, <<Num(0)>>, <<Num(100)>>}

\* the closures the functions among v's own properties run on
ClosuresOf(v) ==
  {v.props[k].v.clo : k \in {j \in 1..Len(v.props) : v.props[j].v.t = "function"}}

\* the first identity no held instance and no closure in use bears
NextFreeHeld ==
  1 + Max({0} \cup DOMAIN heap \cup {held[i].inst.id : i \in 1..Len(held)}
              \cup (IF statics.staticCounter.t = "object"
                    THEN {statics.staticCounter.id} ELSE {}))

\* the caller keeps the instance New(bp, args) returned; after a throw the
\* closures of the failed call are garbage
Made(bp, args, r) ==
  /\ heap' = IF r.kind = "ok" THEN r.ctx.heap ELSE heap
  /\ statics' = r.ctx.statics
  /\ staticCreations' = r.ctx.creations
  /\ held' = IF r.kind = "ok" /\ r.val.t = "object"
             THEN Append(held, [inst |-> r.val, bp |-> bp, base |-> 0, adv |-> 0])
             ELSE held
  /\ reply' = [op |-> "New", bp |-> bp, args |-> args,
               i |-> IF r.kind = "ok" /\ r.val.t = "object" THEN Len(held) + 1 ELSE 0,
               val |-> r.val]
  /\ UNCHANGED <<impl, last, created, coloredCalls>>

Make(bp, args) ==
  /\ Len(held) < MaxHeld
  /\ Made(bp, args,
          New(bp, args, [impl |-> impl, heap |-> heap, statics |-> statics,
                         next |-> NextFreeHeld, log |-> << >>,
                         creations |-> staticCreations]))

\* the caller receives what held[i].name(...args) returned
Answered(i, name, args, r) ==
  /\ heap' = r.ctx.heap
  /\ reply' = [op |-> name, bp |-> held[i].bp, args |-> args, i |-> i, val |-> r.val]
  /\ held' = [held EXCEPT
                ![i].base = IF name # "reset" THEN @
                            ELSE IF Len(args) >= 1 /\ args[1].t = "number"
                            THEN args[1].n ELSE 0,
                ![i].adv = IF name = "reset" THEN 0
                           ELSE IF name = "advance" THEN @ + 1 ELSE @]
  /\ UNCHANGED <<impl, statics, last, created, coloredCalls, staticCreations>>

RECURSIVE Advances(_)
\* the advance() calls the held Counters have counted since their last reset,
\* from held[i] on
Advances(i) == IF i > Len(held) THEN 0 ELSE held[i].adv + Advances(i + 1)

Invoke(i, name, args) ==
  /\ HasOwnProperty(held[i].inst, name)
  /\ OwnValue(held[i].inst, name).t = "function"
  /\ name = "advance" => Advances(1) < MaxAdvances
  /\ name # "reset" => args = << >>
  /\ Answered(i, name, args,
              CallMethod(OwnValue(held[i].inst, name), args, [heap |-> heap]))

UsageNext ==
  \/ \E bp \in UsageBlueprints, args \in UsageArgs : Make(bp, args)
  \/ \E i \in 1..Len(held) :
       \E name \in Names(held[i].inst), args \in ResetArgs : Invoke(i, name, args)

Usage == Init /\ [][UsageNext]_vars

(***************************************************************************)
(* Reading the outcome and the trace of the call the caller holds.  The   *)
(* first event of a trace is the invocation of the blueprint New was      *)
(* called on; its closure identifies that blueprint's descriptor and the  *)
(* calls of the ctor the descriptor declares.                              *)
(***************************************************************************)
Called == last.kind # "none"

\* New returned an instance
Returned == last.kind = "return" /\ last.val.t = "object"

Failed(e) == last.kind = "throw" /\ last.val = e

TopClo == last.log[1].clo

EventsAt(ev, clo) ==
  {i \in DOMAIN last.log : last.log[i].ev = ev /\ last.log[i].clo = clo}

\* the blueprint New was called on returned a descriptor
HasTopDesc == Called /\ EventsAt("desc", TopClo) # {}

TopDesc == last.log[CHOOSE i \in EventsAt("desc", TopClo) : TRUE].val

TopCtorCalls == EventsAt("ctor", TopClo)

TopCtorRets == EventsAt("ctorret", TopClo)

\* the descriptor the data model asks for: a non-empty dictionary
WellFormed(d) == d.t = "object" /\ Len(d.props) >= 1

\* the revisions that read `ctor` from the descriptor, and of these the ones
\* that take the ctor's return value as composition data; the other two
\* revisions pass the arguments to the blueprint and read the key `composed`
CtorRevisions == {"part_000", "part_001", "part_002", "readme", "readme0"}
ReturnComposing == {"part_000", "part_001", "part_002"}
KeyComposing == {"new.js", "part_003"}

\* the key a revision takes off the descriptor
StrippedKeys == IF impl \in KeyComposing THEN {"composed"} ELSE {"ctor"}

\* the composition data of the top-level call and the targets it lists
CompositionData ==
  IF impl \in KeyComposing THEN Get(TopDesc, "composed")
  ELSE IF impl \in ReturnComposing /\ TopCtorRets # {}
  THEN last.log[CHOOSE i \in TopCtorRets : TRUE].val
  ELSE Undef

Targets ==
  IF IsArray(CompositionData) THEN CompositionData.elems
  ELSE IF Truthy(CompositionData) THEN <<CompositionData>>
  ELSE <<>>

TargetsWith(key) == {j \in 1..Len(Targets) : HasOwnProperty(Targets[j], key)}

FirstWith(key) == CHOOSE j \in TargetsWith(key) : \A m \in TargetsWith(key) : j <= m

(***************************************************************************)
(* The claims.                                                             *)
(***************************************************************************)
\* C1: for a well-formed descriptor with neither a `ctor` nor a `composed`
\* entry, New with no arguments returns an instance whose own property names
\* are exactly the descriptor's own property names, under every revision.
C1_PropertySet ==
  (/\ HasTopDesc
   /\ Len(last.args) = 0
   /\ WellFormed(TopDesc)
   /\ ~HasOwnProperty(TopDesc, "ctor")
   /\ ~HasOwnProperty(TopDesc, "composed"))
  => (Returned /\ Names(last.val) = Names(TopDesc))

C1_Witness ==
  /\ HasTopDesc
  /\ last.bp = Counter
  /\ Len(last.args) = 0
  /\ Returned
  /\ Names(last.val) = {"advance", "reset", "value"}
  /\ Names(TopDesc) = {"advance", "reset", "value"}

\* C2, as the spec states it: whenever the descriptor declares a function
\* under `ctor` and New is given at least one argument, that ctor is invoked
\* exactly once, with exactly the arguments of New in order, before New returns.
C2_Original ==
  (/\ HasTopDesc
   /\ Len(last.args) >= 1
   /\ TypeOf(Get(TopDesc, "ctor")) = "function")
  => (/\ Cardinality(TopCtorCalls) = 1
      /\ \A i \in TopCtorCalls : last.log[i].args = last.args
      /\ Returned => Cardinality(TopCtorRets) = 1)

\* C2, amended: the same under the revisions that read `ctor` from the
\* descriptor (part_000, part_001, part_002 and the two README boilerplates);
\* new.js and part_003 pass the arguments to the blueprint and call no ctor.
C2_CtorInvokedOnce ==
  (/\ HasTopDesc
   /\ impl \in CtorRevisions
   /\ Len(last.args) >= 1
   /\ TypeOf(Get(TopDesc, "ctor")) = "function")
  => (/\ Cardinality(TopCtorCalls) = 1
      /\ \A i \in TopCtorCalls : last.log[i].args = last.args
      /\ Returned => Cardinality(TopCtorRets) = 1)

C2_Witness ==
  /\ HasTopDesc
  /\ impl \in CtorRevisions
  /\ last.args = <<Elem, Num(3)>>
  /\ TypeOf(Get(TopDesc, "ctor")) = "function"
  /\ Returned
  /\ \E i \in TopCtorCalls : last.log[i].args = <<Elem, Num(3)>>
  /\ TopCtorRets # {}

\* C3, as the spec states it: whenever the well-formed descriptor has no `ctor`
\* entry and New is given at least one argument, New throws 'New - missing ctor'.
C3_Original ==
  (/\ HasTopDesc
   /\ Len(last.args) >= 1
   /\ WellFormed(TopDesc)
   /\ ~HasOwnProperty(TopDesc, "ctor"))
  => Failed(MissingCtor)

\* C3, amended: the same under the revisions that read `ctor` from the
\* descriptor; new.js and part_003 hand the arguments to the blueprint and
\* return an instance.
C3_MissingCtor ==
  (/\ HasTopDesc
   /\ impl \in CtorRevisions
   /\ Len(last.args) >= 1
   /\ WellFormed(TopDesc)
   /\ ~HasOwnProperty(TopDesc, "ctor"))
  => Failed(MissingCtor)

C3_Witness ==
  /\ HasTopDesc
  /\ impl \in CtorRevisions
  /\ last.bp = Counter
  /\ Len(last.args) >= 1
  /\ ~HasOwnProperty(TopDesc, "ctor")
  /\ Failed(MissingCtor)

\* C4: every instance New(B, ...) returns is an instance of B and of no other
\* blueprint, the blueprints whose instances were merged into it included.
C4_TypeIdentity ==
  Returned =>
    /\ InstanceOf(last.val, last.bp.name)
    /\ \A C \in BlueprintNames \ {last.bp.name} : ~InstanceOf(last.val, C)

\* an instance of A that took a property from an instance of D1 or D2
C4_Witness ==
  /\ Returned
  /\ HasTopDesc
  /\ last.bp.name = "A"
  /\ \E j \in 1..Len(Targets) :
       /\ Targets[j].t = "object"
       /\ Targets[j].proto \in {"D1", "D2"}
       /\ \E key \in Names(Targets[j]) \ Names(TopDesc) :
            /\ HasOwnProperty(last.val, key)
            /\ OwnValue(last.val, key) = OwnValue(Targets[j], key)
  /\ InstanceOf(last.val, "A")

\* C5: every property the host's descriptor defines, the key the revision takes
\* off the descriptor aside, is on the returned instance with the host's value,
\* whatever the composition targets define under the same key.
C5_HostPrecedence ==
  (Returned /\ HasTopDesc) =>
    \A key \in Names(TopDesc) \ StrippedKeys :
      /\ HasOwnProperty(last.val, key)
      /\ OwnValue(last.val, key) = OwnValue(TopDesc, key)

\* host and target both define a key, with different values, and the merge took
\* place: the instance has a property the host does not define
C5_Witness ==
  /\ Returned
  /\ HasTopDesc
  /\ \E key \in Names(TopDesc) \ {"ctor", "composed"} :
       /\ \E j \in TargetsWith(key) : OwnValue(Targets[j], key) # OwnValue(TopDesc, key)
       /\ OwnValue(last.val, key) = OwnValue(TopDesc, key)
  /\ Names(last.val) \ Names(TopDesc) # {}

\* C6: every property of the returned instance that the host's descriptor does
\* not define comes from the first composition target, in the order the targets
\* are listed, that has it.
C6_FirstTargetWins ==
  (Returned /\ HasTopDesc) =>
    \A key \in Names(last.val) \ Names(TopDesc) :
      /\ TargetsWith(key) # {}
      /\ OwnValue(last.val, key) = OwnValue(Targets[FirstWith(key)], key)

\* two targets define `bar` differently, the host does not define it
C6_Witness ==
  /\ Returned
  /\ HasTopDesc
  /\ Len(Targets) = 2
  /\ ~HasOwnProperty(TopDesc, "bar")
  /\ TargetsWith("bar") = {1, 2}
  /\ OwnValue(Targets[1], "bar") # OwnValue(Targets[2], "bar")
  /\ OwnValue(last.val, "bar") = OwnValue(Targets[1], "bar")

\* the ctor of the top-level descriptor returned false
CtorReturnedFalse ==
  Called /\ \E i \in TopCtorRets : last.log[i].val = Bool(FALSE)

\* C7, as the spec states it: whenever the ctor returns false, New returns
\* undefined instead of an instance.
C7_Original == CtorReturnedFalse => (last.kind = "return" /\ last.val = Undef)

\* C7, amended: under the boilerplate of new.js's README, a ctor that returns
\* false makes New return undefined; part_000, part_001 and part_002 take false
\* for `no composition` and return the instance, the boilerplate of README.md
\* ignores what the ctor returns, new.js and part_003 call no ctor.
C7_AbortPropagates ==
  (impl = "readme" /\ CtorReturnedFalse) => (last.kind = "return" /\ last.val = Undef)

C7_Witness ==
  /\ impl = "readme"
  /\ last.bp = ColoredDiv
  /\ Len(last.args) = 0
  /\ CtorReturnedFalse
  /\ last.kind = "return"
  /\ last.val = Undef

\* the value of the counter ColoredDiv.staticCounter holds, 0 before it is created
Tally == IF statics.staticCounter.t = "object" THEN NumInstances(statics, heap) ELSE 0

\* C8, as the spec states it: after any sequence of New(ColoredDiv, ...) calls
\* the shared counter's value is the number of calls that returned an instance,
\* and the counter is created at most once.
C8_Original == Tally = created /\ staticCreations <= 1

\* C8, amended: the same under the boilerplate of new.js's README, the revision
\* in which a ctor can abort; under part_000, part_001 and part_002 the aborted
\* call returns an instance uncounted, under new.js and part_003 no ctor runs.
C8_StaticTally == impl = "readme" => (Tally = created /\ staticCreations <= 1)

\* two constructions and an aborted third call leave the counter at 2
C8_Witness ==
  /\ impl = "readme"
  /\ coloredCalls = 3
  /\ created = 2
  /\ Tally = 2
  /\ staticCreations = 1
  /\ last.bp = ColoredDiv
  /\ CtorReturnedFalse
  /\ last.val = Undef

\* C9, under part_002, the revision whose `delete header.ctor` the claim
\* cites: `ctor` is never an own property of an instance New returns.
C9_CtorNeverOwn == (impl = "part_002" /\ Returned) => ~HasOwnProperty(last.val, "ctor")

\* what the spec's validation step rejects: null or undefined, not an object,
\* an array, a function, a mapping with no entry
BadDescriptor(d) ==
  \/ d.t \in {"undefined", "null"}
  \/ d.t \in {"boolean", "number", "string"}
  \/ d.t = "array"
  \/ d.t = "function"
  \/ d.t = "date"
  \/ d.t = "object" /\ Len(d.props) = 0

SomeBadDescriptor ==
  \E i \in DOMAIN last.log : last.log[i].ev = "desc" /\ BadDescriptor(last.log[i].val)

\* C10, as the spec states it: New throws 'New - invalid interface' exactly when
\* a blueprint returned a value the validation step rejects.
C10_Original == Called => (SomeBadDescriptor <=> Failed(InvalidInterface))

\* C10, amended: the same under part_000, part_002 and the two README
\* boilerplates; part_001 accepts a mapping with no entry, new.js and part_003
\* validate nothing.
C10_DescriptorValidation ==
  (Called /\ impl \in {"part_000", "part_002", "readme", "readme0"})
  => (SomeBadDescriptor <=> Failed(InvalidInterface))

C10_Witness ==
  /\ HasTopDesc
  /\ impl \in {"part_000", "part_002", "readme", "readme0"}
  /\ TopDesc = Obj(0, "Object", <<>>)
  /\ Failed(InvalidInterface)

\* C11, under part_002: whenever the well-formed descriptor holds a value that
\* is not a function under `ctor` (undefined aside), New throws
\* 'New - invalid ctor'.
C11_InvalidCtor ==
  (/\ impl = "part_002"
   /\ HasTopDesc
   /\ WellFormed(TopDesc)
   /\ HasOwnProperty(TopDesc, "ctor")
   /\ Get(TopDesc, "ctor").t # "undefined"
   /\ TypeOf(Get(TopDesc, "ctor")) # "function")
  => Failed(InvalidCtor)

\* what the spec calls a malformed composition target: anything but a mapping
\* with at least one entry
Malformed(a) == ~(a.t = "object" /\ Len(a.props) >= 1)

\* C12, under part_002: whenever the ctor returned composition data that is or
\* contains a malformed target, New throws 'New - invalid composition'.
C12_InvalidComposition ==
  (/\ impl = "part_002"
   /\ HasTopDesc
   /\ \E j \in 1..Len(Targets) : Malformed(Targets[j]))
  => Failed(InvalidComposition)

\* the receiver the blueprint New was called on ran with
TopThis == last.log[1].this

\* C15, as the spec states it: the `this` of the blueprint is the very object
\* New returns, and an instance of the blueprint.
C15_Original ==
  (Returned /\ HasTopDesc) =>
    /\ TopThis.t = "object"
    /\ TopThis.id = last.val.id
    /\ InstanceOf(TopThis, last.bp.name)

\* C15, amended: the same under new.js and part_003; part_000 and the two
\* README boilerplates pass a fresh object that New does not return, part_001
\* and part_002 call the blueprint with no receiver.
C15_ThisIsInstance ==
  (impl \in KeyComposing /\ Returned /\ HasTopDesc) =>
    /\ TopThis.t = "object"
    /\ TopThis.id = last.val.id
    /\ InstanceOf(TopThis, last.bp.name)

C15_Witness ==
  /\ impl \in KeyComposing
  /\ Returned
  /\ HasTopDesc
  /\ last.bp = Counter
  /\ TopThis.t = "object"
  /\ TopThis.id = last.val.id
  /\ InstanceOf(last.val, "Counter")
  /\ Names(last.val) = {"advance", "reset", "value"}

(***************************************************************************)
(* Claims about the instances a program holds (specification Usage).       *)
(***************************************************************************)
HeldCounters == {i \in 1..Len(held) : held[i].bp = Counter}

\* what held[i].value() returns in the current state
CounterValue(i) == value(OwnValue(held[i].inst, "value").clo, [heap |-> heap]).val

Gets(inst, name, n) ==
  /\ HasOwnProperty(inst, name)
  /\ OwnValue(inst, name).t = "function"
  /\ CallMethod(OwnValue(inst, name), << >>, [heap |-> heap]).val = Num(n)

\* the v a C2, C3 or C4 made with these arguments holds
GivenV(args) == IF Len(args) = 0 THEN -1 ELSE args[1].n

\* New(C3, v): getC3V() and getV() return v, the composed getC2V() returns v-1,
\* on the closures of two instances
C3Composed(inst, v) ==
  /\ inst.t = "object"
  /\ Gets(inst, "getC3V", v)
  /\ Gets(inst, "getV", v)
  /\ Gets(inst, "getC2V", v - 1)
  /\ Cardinality(ClosuresOf(inst)) = 2

\* New(C4, v): getC4V() and getV() return v, getC1V() returns 1, and from
\* C3(v-1) come getC3V() = v-1 and, transitively, getC2V() = v-2
C4Composed(inst, v) ==
  /\ inst.t = "object"
  /\ Gets(inst, "getC4V", v)
  /\ Gets(inst, "getV", v)
  /\ Gets(inst, "getC1V", 1)
  /\ Gets(inst, "getC3V", v - 1)
  /\ Gets(inst, "getC2V", v - 2)
  /\ Cardinality(ClosuresOf(inst)) = 4

\* C14, as the spec states it: New(C3, 3) yields an instance with getC3V() = 3
\* and getC2V() = 2, New(C4, 4) one with getC1V() = 1, getC2V() = 2,
\* getC3V() = 3, getC4V() = 4 and getV() = 4, each method on the private state
\* of the instance it came from.
C14_Original ==
  /\ (reply.op = "New" /\ reply.bp = C3) => C3Composed(reply.val, GivenV(reply.args))
  /\ (reply.op = "New" /\ reply.bp = C4) => C4Composed(reply.val, GivenV(reply.args))

\* C14, amended: the same under new.js and part_003, the revisions that pass
\* the arguments to the blueprint and read `composed`; under the other five
\* New(C3, 3) and New(C4, 4) throw 'New - missing ctor'.
C14_TransitiveComposition ==
  impl \in KeyComposing =>
    /\ (reply.op = "New" /\ reply.bp = C3) => C3Composed(reply.val, GivenV(reply.args))
    /\ (reply.op = "New" /\ reply.bp = C4) => C4Composed(reply.val, GivenV(reply.args))

C14_Witness ==
  /\ impl \in KeyComposing
  /\ reply.op = "New"
  /\ reply.bp = C4
  /\ reply.args = <<Num(4)>>
  /\ Gets(reply.val, "getC1V", 1)
  /\ Gets(reply.val, "getC2V", 2)
  /\ Gets(reply.val, "getC3V", 3)
  /\ Gets(reply.val, "getC4V", 4)
  /\ Gets(reply.val, "getV", 4)

\* the closure-private variables behind the methods of held[i]
PrivateState(i) == [c \in ClosuresOf(held[i].inst) |-> heap[c].vars]

\* what the methods of held[i] that only read would return
Observers(i) ==
  {name \in Names(held[i].inst) :
     OwnValue(held[i].inst, name).t = "function" /\ name \notin {"advance", "reset"}}

Observed(i) ==
  [name \in Observers(i) |->
     CallMethod(OwnValue(held[i].inst, name), << >>, [heap |-> heap]).val]

\* no closure stands behind two held instances
DisjointClosures ==
  \A i, j \in 1..Len(held) :
    i # j => ClosuresOf(held[i].inst) \cap ClosuresOf(held[j].inst) = {}

\* a call of New or of a method of one instance leaves every other held
\* instance's private state and observable values as they were (a step that
\* writes neither the heap nor the instance leaves them so at once)
OthersUnchanged ==
  \A j \in 1..Len(held) :
    reply'.i # j =>
      \/ heap' = heap /\ held'[j] = held[j]
      \/ PrivateState(j)' = PrivateState(j) /\ Observed(j)' = Observed(j)

\* C16: instances made by separate New calls have closure-private state of
\* their own, and an operation on one instance, or the making of another,
\* leaves every observable value of the others unchanged.
C16_Independence == []DisjointClosures /\ [][OthersUnchanged]_vars

\* two Counters of which the first was reset to 100 and advanced, the second
\* advanced once
C16_Witness ==
  /\ Len(held) = 2
  /\ held[1].bp = Counter
  /\ held[2].bp = Counter
  /\ CounterValue(1) = Num(101)
  /\ CounterValue(2) = Num(1)
  /\ reply.op = "advance"
  /\ reply.i = 1

(***************************************************************************)
(* Claims about calls of New that fail (specification Spec).               *)
(***************************************************************************)
FatalErrors == {InvalidInterface, InvalidCtor, MissingCtor, InvalidComposition}

\* the caller was thrown one of New's four errors and holds no object
FailedFatally == last.kind = "throw" /\ last.val \in FatalErrors /\ last.val.t # "object"

\* this step is a call of New that fails
FailingCall == last.kind = "none" /\ FailedFatally'

\* the closure state of every instance constructed before the call is as it was
InstancesKept == \A c \in DOMAIN heap : c \in DOMAIN heap' /\ heap'[c] = heap[c]

\* what the statics are after the body of a class with a static counter ran
\* for the first time: a fresh counter at 0 and the static method
FirstBodyRun ==
  /\ last'.bp.body \in {"ColoredDiv", "Tallied"}
  /\ statics.staticCounter = Undef
  /\ statics'.staticCounter.t = "object"
  /\ statics'.NumInstances = TRUE
  /\ Tally' = 0
  /\ staticCreations' = staticCreations + 1

\* the same when the counter existed: only the static method is assigned
LaterBodyRun ==
  /\ last'.bp.body \in {"ColoredDiv", "Tallied"}
  /\ statics.staticCounter.t = "object"
  /\ statics' = [statics EXCEPT !.NumInstances = TRUE]
  /\ staticCreations' = staticCreations

====
